---- MODULE Spec2Model ----
(***************************************************************************)
(* GenStudio: composition of plot specifications (gen/studio/plot.py) and  *)
(* the serialization layer of the widget (genstudio/widget.py).            *)
(*                                                                         *)
(* Python dicts are objects with identity: they live in `heap`, and a dict *)
(* held inside another dict is held by reference.  Lists are never mutated *)
(* by the code modelled here except the local `marks` accumulator, so a    *)
(* list is a value.  A mark is a dict that has the key "pyobsplot-type".   *)
(***************************************************************************)
EXTENDS Integers, Sequences, FiniteSets, TLC

VARIABLES
    heap,       \* address -> dict object (key -> atom | list | ref)
    plotSpecs,  \* program variable -> PlotSpec object [spec, plot] or NoSpec
    widgets,    \* widget id -> [data, view]: the Widget objects created
    callback_registry,  \* Widget.callback_registry: the callables, by uuid
    last        \* the last call made: its arguments, what it saw, what it gave

vars == <<heap, plotSpecs, widgets, callback_registry, last>>

-----------------------------------------------------------------------------
(* Bounds *)

MaxMarks == 2       \* longest marks list a PlotSpec is constructed with
MaxAddr == 20       \* dict objects alive at once
MaxCallbacks == 3   \* callables the registry comes to hold

-----------------------------------------------------------------------------
(* Values *)

Atom(n) == [t |-> "atom", v |-> n]
Dict(f) == [t |-> "dict", d |-> f]
List(s) == [t |-> "list", l |-> s]
Mark(i) == [t |-> "mark", id |-> i]
PS(p) == [t |-> "ps", p |-> p]
Ref(a) == [t |-> "ref", a |-> a]
None == [t |-> "none"]

EmptyDict == [k \in {} |-> None]

\* d[k] = v on a dict
Put(f, k, v) == [x \in DOMAIN f \cup {k} |-> IF x = k THEN v ELSE f[x]]

\* {**f, **g}
Spread(f, g) == [x \in DOMAIN f \cup DOMAIN g |-> IF x \in DOMAIN g THEN g[x] ELSE f[x]]

\* The keys of a dict in the order the loops below visit them.  No two keys of
\* one dict hold the same object here, so the order of a dict's items does not
\* change what a loop over them leaves behind.
AllKeys ==
    <<"marks", "x", "y", "a", "b", "c", "d", "e", "width", "height", "inset",
      "ast", "cache", "__type__", "id", "value">>
KeysOf(f) == SelectSeq(AllKeys, LAMBDA k : k \in DOMAIN f)

-----------------------------------------------------------------------------
(* The heap *)

Addr == 1..MaxAddr

Alloc(h) == CHOOSE a \in Addr \ DOMAIN h : \A b \in Addr \ DOMAIN h : a <= b

\* a call finds half of the heap free
HasRoom(h) == 2 * Cardinality(DOMAIN h) <= MaxAddr

\* a new dict object holding f
NewObj(h, a, f) == [x \in DOMAIN h \cup {a} |-> IF x = a THEN f ELSE h[x]]

\* obj[k] = v
SetKey(h, a, k, v) == [h EXCEPT ![a] = Put(@, k, v)]

\* what a dict object holds, read through its references
RECURSIVE Deref(_, _)
Deref(h, a) ==
    [k \in DOMAIN h[a] |->
        IF h[a][k].t = "ref" THEN Dict(Deref(h, h[a][k].a)) ELSE h[a][k]]

RECURSIVE ReachFrom(_, _)
ReachFrom(h, a) ==
    {a} \cup UNION {ReachFrom(h, h[a][k].a) : k \in {x \in DOMAIN h[a] : h[a][x].t = "ref"}}

\* objects no variable reaches any more are freed
Collect(h, roots) ==
    LET live == UNION {ReachFrom(h, a) : a \in roots}
    IN  [a \in live |-> h[a]]

-----------------------------------------------------------------------------
(* Composition: gen/studio/plot.py *)

\* dict1[k] = c, c being a dict object just made: [h, a]
StoreRef(c, a1, k) == SetKey(c.h, a1, k, Ref(c.a))

RECURSIVE DeepCopy(_, _), CopyItems(_, _, _, _)

\* copy.deepcopy(d) of a dict: a fresh object; the dicts it holds are copied too
DeepCopyAt(h, a, d) == [h |-> CopyItems(NewObj(h, a, EmptyDict), a, d, KeysOf(d)), a |-> a]
DeepCopy(h, d) == DeepCopyAt(h, Alloc(h), d)

CopyItems(h, a, d, ks) ==
    IF ks = <<>> THEN h
    ELSE IF d[Head(ks)].t = "dict"
         THEN CopyItems(StoreRef(DeepCopy(h, d[Head(ks)].d), a, Head(ks)), a, d, Tail(ks))
         ELSE CopyItems(SetKey(h, a, Head(ks), d[Head(ks)]), a, d, Tail(ks))

\* dict1.update(copy.deepcopy(dict2)): a merge that does not descend
RECURSIVE ShallowMerge(_, _, _, _)
ShallowMerge(h, a1, d2, ks) ==
    IF ks = <<>> THEN h
    ELSE IF d2[Head(ks)].t = "dict"
         THEN ShallowMerge(StoreRef(DeepCopy(h, d2[Head(ks)].d), a1, Head(ks)), a1, d2, Tail(ks))
         ELSE ShallowMerge(SetKey(h, a1, Head(ks), d2[Head(ks)]), a1, d2, Tail(ks))

_deep_merge_shallow(h, a1, d2) == ShallowMerge(h, a1, d2, KeysOf(d2))

RECURSIVE _deep_merge(_, _, _), MergeItems(_, _, _, _)

\* The body of the loop `for k, v in dict2.items()`.  dict1 is the object at
\* address a1; dict2 is only read, and is given by what it holds.
MergeItem(h, a1, k, v) ==
    IF k \in DOMAIN h[a1] /\ h[a1][k].t = "ref" /\ v.t = "dict"
    THEN _deep_merge(h, h[a1][k].a, v.d)
    ELSE IF v.t = "dict"
         THEN StoreRef(DeepCopy(h, v.d), a1, k)
         ELSE SetKey(h, a1, k, v)

MergeItems(h, a1, d2, ks) ==
    IF ks = <<>> THEN h
    ELSE MergeItems(MergeItem(h, a1, Head(ks), d2[Head(ks)]), a1, d2, Tail(ks))

\* _deep_merge(dict1, dict2): writes into dict1 and returns it
_deep_merge(h, a1, d2) == MergeItems(h, a1, d2, KeysOf(d2))

\* The state of one call: the heap, the local list `marks`, the exception raised
NoErr == "none"
Raise(st, e) == [st EXCEPT !.err = e]
WithHeap(st, h) == [st EXCEPT !.h = h]

\* `if new_marks:`
Truthy(v) == v.t = "list" /\ v.l # <<>>

\* new_spec.spec of the PlotSpec a program variable holds, as it is now
SpecOf(h, p) == Dict(Deref(h, plotSpecs[p].spec))

RECURSIVE _add_list(_, _, _), _add_dict(_, _, _)

\* the body of the loop `for new_spec in to_add`
AddItem(st, spec, new_spec) ==
    CASE new_spec.t \in {"dict", "mark"} -> _add_dict(st, spec, new_spec)
      [] new_spec.t = "ps" -> _add_dict(st, spec, SpecOf(st.h, new_spec.p))
      [] new_spec.t = "list" -> _add_list(st, spec, new_spec.l)
      [] OTHER -> Raise(st, "ValueError")

_add_list(st, spec, to_add) ==
    IF to_add = <<>> \/ st.err # NoErr THEN st
    ELSE _add_list(AddItem(st, spec, Head(to_add)), spec, Tail(to_add))

\* to_add.get("marks", None) and what follows it
AddNewMarks(st, spec, new_marks) ==
    IF Truthy(new_marks) THEN _add_list(st, spec, new_marks.l) ELSE st

\* _add_dict without its descent into to_add["marks"]
_add_dict_no_marks(st, spec, to_add) ==
    IF to_add.t = "mark" THEN [st EXCEPT !.marks = Append(@, to_add)]
    ELSE WithHeap(st, _deep_merge(st.h, spec, to_add.d))

_add_dict(st, spec, to_add) ==
    IF to_add.t = "mark" THEN [st EXCEPT !.marks = Append(@, to_add)]
    ELSE AddNewMarks(WithHeap(st, _deep_merge(st.h, spec, to_add.d)), spec,
                     IF "marks" \in DOMAIN to_add.d THEN to_add.d["marks"] ELSE None)

_add(st, spec, to_add) ==
    CASE to_add.t = "list" -> _add_list(st, spec, to_add.l)
      [] to_add.t \in {"dict", "mark"} -> _add_dict(st, spec, to_add)
      [] to_add.t = "ps" -> _add_dict(st, spec, SpecOf(st.h, to_add.p))
      [] OTHER -> Raise(st, "TypeError")

\* `if specs: _add_list(spec, marks, specs)`
InitSpecs(st, spec, specs) == IF specs # <<>> THEN _add_list(st, spec, specs) ELSE st

\* `if kwargs: _add_dict(spec, marks, kwargs)`
InitKwargs(st, spec, kwargs) ==
    IF st.err = NoErr /\ DOMAIN kwargs # {} THEN _add_dict(st, spec, Dict(kwargs)) ELSE st

\* `spec["marks"] = marks`, and the object made: its spec dict, or the
\* exception that left no object
InitDone(st, spec) ==
    [h |-> IF st.err = NoErr THEN SetKey(st.h, spec, "marks", List(st.marks)) ELSE st.h,
     spec |-> spec, err |-> st.err]

InitAt(h, spec, specs, kwargs) ==
    InitDone(
        InitKwargs(
            InitSpecs([h |-> NewObj(h, spec, Put(EmptyDict, "marks", List(<<>>))),
                       marks |-> <<>>, err |-> NoErr], spec, specs),
            spec, kwargs),
        spec)

\* PlotSpec.__init__(self, *specs, **kwargs)
PlotSpecInit(h, specs, kwargs) == InitAt(h, Alloc(h), specs, kwargs)

\* `spec["marks"] = marks; return PlotSpec(spec)`
AddDone(st, spec) ==
    IF st.err # NoErr THEN [h |-> st.h, spec |-> spec, err |-> st.err]
    ELSE InitAt(SetKey(st.h, spec, "marks", List(st.marks)),
                Alloc(st.h),
                <<Dict(Put(Deref(st.h, spec), "marks", List(st.marks)))>>,
                EmptyDict)

\* `spec = self.spec.copy(); marks = spec["marks"].copy(); _add(spec, marks, to_add)`
AddAt(h, self_spec, spec, to_add) ==
    AddDone(_add([h |-> NewObj(h, spec, h[self_spec]), marks |-> h[self_spec]["marks"].l,
                  err |-> NoErr], spec, to_add),
            spec)

\* PlotSpec.__add__(self, to_add), self.spec being the dict at self_spec
PlotSpecAdd(h, self_spec, to_add) == AddAt(h, self_spec, Alloc(h), to_add)

plot_options_default ==
    [k \in {"width", "height", "inset"} |->
        CASE k = "width" -> Atom(500) [] k = "height" -> Atom(350) [] OTHER -> Atom(20)]

NoSpec == [spec |-> 0, plot |-> 0]
Bound(p) == plotSpecs[p] # NoSpec

\* Widget(ast): one more Widget object, holding ast as its data
NewWidget(ws, w, ast, view) ==
    [x \in DOMAIN ws \cup {w} |-> IF x = w THEN [data |-> ast, view |-> view] ELSE ws[x]]

\* widget.data = ast
SetData(ws, w, ast) == [ws EXCEPT ![w] = [data |-> ast, view |-> FALSE]]

\* {**plot_options["default"], **self.spec}, a new dict at address a
WithDefaults(h, a, spec) == NewObj(h, a, Spread(plot_options_default, h[spec]))

\* PlotSpec.plot(self) without its test of self._plot
PlotSpecPlotAlways(h, ws, self) ==
    [h |-> WithDefaults(h, Alloc(h), self.spec),
     ws |-> NewWidget(ws, Cardinality(DOMAIN ws) + 1, Alloc(h), TRUE),
     self |-> [self EXCEPT !.plot = Cardinality(DOMAIN ws) + 1]]

\* PlotSpec.plot(self): the widget, made on the first call from
\* View.PlotSpec({**plot_options["default"], **self.spec})
PlotSpecPlot(h, ws, self) ==
    IF self.plot = 0
    THEN [h |-> WithDefaults(h, Alloc(h), self.spec),
          ws |-> NewWidget(ws, Cardinality(DOMAIN ws) + 1, Alloc(h), TRUE),
          self |-> [self EXCEPT !.plot = Cardinality(DOMAIN ws) + 1]]
    ELSE [h |-> h, ws |-> ws, self |-> self]

\* `self.plot().data = {**plot_options["default"], **self.spec}`
ResetData(pl) ==
    [h |-> WithDefaults(pl.h, Alloc(pl.h), pl.self.spec),
     ws |-> SetData(pl.ws, pl.self.plot, Alloc(pl.h)),
     self |-> pl.self]

\* `self.spec = PlotSpec(*specs, **kwargs).spec`
ResetSpec(made, ws, self) == PlotSpecPlot(made.h, ws, [self EXCEPT !.spec = made.spec])

\* reset that adds the given specs to the spec it has
PlotSpecResetAdds(h, ws, self, specs, kwargs) ==
    ResetData(ResetSpec(PlotSpecAdd(h, self.spec, List(specs \o <<Dict(kwargs)>>)), ws, self))

\* PlotSpec.reset(self, *specs, **kwargs)
PlotSpecReset(h, ws, self, specs, kwargs) ==
    ResetData(ResetSpec(PlotSpecInit(h, specs, kwargs), ws, self))

\* self.spec.update(kwargs): each value is stored as the caller gave it; a dict
\* the caller wrote in the call is an object nothing else holds
RECURSIVE DictUpdate(_, _, _, _)
DictUpdate(h, a, kwargs, ks) ==
    IF ks = <<>> THEN h
    ELSE IF kwargs[Head(ks)].t = "dict"
         THEN DictUpdate(StoreRef(DeepCopy(h, kwargs[Head(ks)].d), a, Head(ks)), a, kwargs, Tail(ks))
         ELSE DictUpdate(SetKey(h, a, Head(ks), kwargs[Head(ks)]), a, kwargs, Tail(ks))

\* `if specs: self.spec = (self + specs).spec`
UpdateSpecsOf(h, self, specs) ==
    IF specs # <<>> THEN PlotSpecAdd(h, self.spec, List(specs))
    ELSE [h |-> h, spec |-> self.spec, err |-> NoErr]

\* update that adds the given marks to the marks it has
UpdateMarksAdded(sum, marks) ==
    IF marks # None
    THEN [sum EXCEPT !.h = SetKey(sum.h, sum.spec, "marks",
                                  List(sum.h[sum.spec]["marks"].l \o marks.l))]
    ELSE sum

\* `if marks is not None: self.spec["marks"] = marks`
UpdateMarksOf(sum, marks) ==
    IF marks # None THEN [sum EXCEPT !.h = SetKey(sum.h, sum.spec, "marks", marks)] ELSE sum

\* `self.spec.update(kwargs)`
UpdateOptions(sum, kwargs) ==
    [sum EXCEPT !.h = DictUpdate(sum.h, sum.spec, kwargs, KeysOf(kwargs))]

\* `self.plot().data = self.spec`
UpdateData(pl) ==
    [h |-> pl.h, ws |-> SetData(pl.ws, pl.self.plot, pl.self.spec), self |-> pl.self]

UpdatePlot(sum, ws, self) == PlotSpecPlot(sum.h, ws, [self EXCEPT !.spec = sum.spec])

\* PlotSpec.update(self, *specs, marks=None, **kwargs)
PlotSpecUpdate(h, ws, self, specs, marks, kwargs) ==
    UpdateData(
        UpdatePlot(UpdateOptions(UpdateMarksOf(UpdateSpecsOf(h, self, specs), marks), kwargs),
                   ws, self))

-----------------------------------------------------------------------------
(* What the program passes in *)

M1 == Mark(1)
M2 == Mark(2)

Leaf(k, n) == Put(EmptyDict, k, Atom(n))
Nest(k, f) == Put(EmptyDict, k, Dict(f))

OptA == Dict(Nest("x", Nest("a", Leaf("c", 1))))
OptB == Dict(Nest("x", Put(Nest("a", Put(Leaf("c", 2), "d", Atom(2))), "b", Atom(3))))
OptC == Dict(Leaf("x", 4))
OptM == Dict(Put(Leaf("y", 5), "marks", List(<<M2>>)))

\* *specs of a constructor or reset call
CtorSpecs ==
    { <<>>, <<M1, OptA>>, <<OptB, List(<<M2, M1>>)>>, <<OptM, OptC>> }

\* **kwargs
Kwargs == { EmptyDict, Leaf("y", 6) }

\* right operands of +, PlotSpecs apart
Operands ==
    { M1, OptA, OptB, OptC, OptM,
      List(<<M2, List(<<OptA, List(<<M1>>)>>), OptC>>),
      Atom(7), List(<<OptB, List(<<Atom(7)>>)>>) }

SpecIds == {"p", "q"}

-----------------------------------------------------------------------------
(* The session *)

Roots(ps, ws) ==
    {ps[p].spec : p \in {x \in SpecIds : ps[x] # NoSpec}} \cup {ws[w].data : w \in DOMAIN ws}

Snapshot(h, ps) == [p \in SpecIds |-> IF ps[p] # NoSpec THEN Dict(Deref(h, ps[p].spec)) ELSE None]

Call(op, self, specs, marks, kwargs, err, result) ==
    [op |-> op, self |-> self, specs |-> specs, marks |-> marks, kwargs |-> kwargs,
     before |-> IF op \in {"add", "reset"} THEN Snapshot(heap, plotSpecs)
                ELSE [p \in SpecIds |-> None],
     plot |-> plotSpecs[self].plot, made |-> Cardinality(DOMAIN widgets),
     err |-> err, result |-> result]

Init ==
    /\ heap = [a \in {} |-> EmptyDict]
    /\ plotSpecs = [p \in SpecIds |-> NoSpec]
    /\ widgets = [w \in {} |-> NoSpec]
    /\ callback_registry = <<>>
    /\ last = [op |-> "init", self |-> "p", specs |-> None, marks |-> None,
               kwargs |-> EmptyDict, before |-> [p \in SpecIds |-> None], plot |-> 0, made |-> 0,
               err |-> NoErr, result |-> None]

\* what a call leaves: the objects nothing reaches are freed
Leave(h, ps, ws, call) ==
    /\ plotSpecs' = ps
    /\ widgets' = ws
    /\ heap' = Collect(h, Roots(ps, ws))
    /\ last' = call
    /\ UNCHANGED callback_registry

NewDone(p, made, call) ==
    Leave(made.h, [plotSpecs EXCEPT ![p] = [spec |-> made.spec, plot |-> 0]], widgets, call)

\* p = PlotSpec(*specs, **kwargs)
New(p, specs, kwargs) ==
    /\ ~Bound(p)
    /\ HasRoom(heap)
    /\ NewDone(p, PlotSpecInit(heap, specs, kwargs),
               Call("new", p, List(specs), None, kwargs, NoErr, None))

AddLeaves(p, to_add, sum) ==
    Leave(sum.h, plotSpecs, widgets,
          Call("add", p, to_add, None, EmptyDict, sum.err,
               IF sum.err = NoErr THEN Dict(Deref(sum.h, sum.spec)) ELSE None))

\* p + to_add, the sum being looked at and dropped
Add(p, to_add) ==
    /\ Bound(p)
    /\ HasRoom(heap)
    /\ AddLeaves(p, to_add, PlotSpecAdd(heap, plotSpecs[p].spec, to_add))

AddAny(p) ==
    \/ \E to_add \in Operands : Add(p, to_add)
    \/ \E q \in SpecIds : Bound(q) /\ Add(p, PS(q))
    \/ \E q \in SpecIds : Bound(q) /\ Add(p, List(<<M1, List(<<PS(q), OptA>>)>>))

Compose ==
    \/ \E p \in SpecIds, specs \in CtorSpecs, kwargs \in Kwargs : New(p, specs, kwargs)
    \/ \E p \in SpecIds : AddAny(p)

Spec == Init /\ [][Compose]_vars


\* *specs of a reset call
ResetSpecs == { <<>>, <<OptM, OptC>> }

\* *specs of an update call
UpdateSpecs == { <<>>, <<M1, OptA>>, <<OptB, PS("p")>> }

\* marks= of an update call
UpdateMarks == { None, List(<<>>), List(<<M2>>) }

\* **kwargs of an update call
UpdateKwargs == { EmptyDict, Nest("x", Leaf("b", 7)) }

MarksOf(h, self) == h[self.spec]["marks"].l

\* the call is over: r is [h, ws, self]
Done(p, r, call) ==
    /\ Len(MarksOf(r.h, r.self)) <= MaxMarks
    /\ Leave(r.h, [plotSpecs EXCEPT ![p] = r.self], r.ws, call)

\* p.plot()
Plot(p) ==
    /\ Bound(p)
    /\ HasRoom(heap)
    /\ Done(p, PlotSpecPlot(heap, widgets, plotSpecs[p]),
            Call("plot", p, None, None, EmptyDict, NoErr, None))

\* p._repr_mimebundle_(): self.plot()._repr_mimebundle_()
ReprMimebundle(p) ==
    /\ Bound(p)
    /\ HasRoom(heap)
    /\ Done(p, PlotSpecPlot(heap, widgets, plotSpecs[p]),
            Call("repr", p, None, None, EmptyDict, NoErr, None))

\* p.reset(*specs, **kwargs)
Reset(p, specs, kwargs) ==
    /\ Bound(p)
    /\ HasRoom(heap)
    /\ Done(p, PlotSpecReset(heap, widgets, plotSpecs[p], specs, kwargs),
            Call("reset", p, List(specs), None, kwargs, NoErr, None))

\* p.update(*specs, marks=marks, **kwargs)
Update(p, specs, marks, kwargs) ==
    /\ Bound(p)
    /\ HasRoom(heap)
    /\ \A x \in 1..Len(specs) : specs[x].t = "ps" => Bound(specs[x].p)
    /\ Done(p, PlotSpecUpdate(heap, widgets, plotSpecs[p], specs, marks, kwargs),
            Call("update", p, List(specs), marks, kwargs, NoErr, None))

Lifecycle ==
    \/ \E specs \in CtorSpecs, kwargs \in Kwargs : New("p", specs, kwargs)
    \/ Plot("p")
    \/ ReprMimebundle("p")
    \/ \E specs \in ResetSpecs, kwargs \in Kwargs : Reset("p", specs, kwargs)
    \/ \E specs \in UpdateSpecs, marks \in UpdateMarks, kwargs \in UpdateKwargs :
          Update("p", specs, marks, kwargs)

SpecWidget == Init /\ [][Lifecycle]_vars


-----------------------------------------------------------------------------
(* Serialization: genstudio/widget.py *)

\* An object orjson does not serialize by itself, by what the tests of
\* `default` find on it: cache_id(), for_json(), tolist(), the list of its
\* items when it is iterable, isoformat() when it is a date, its name when it is callable.
Absent == [t |-> "absent"]
Obj(cache_id, for_json, tolist, items, isoformat, call) ==
    [t |-> "obj", cache_id |-> cache_id, for_json |-> for_json, tolist |-> tolist,
     items |-> items, isoformat |-> isoformat, call |-> call]
Has(obj, attr) == obj[attr] # Absent

Str(s) == [t |-> "str", v |-> s]
Fragment(json) == [t |-> "fragment", json |-> json]
Tagged(type, k, v) ==
    Dict([x \in {"__type__", k} |-> IF x = "__type__" THEN Str(type) ELSE v])

\* the Cache object of one serialization, as `data` holds it
TheCache == [t |-> "cache"]

\* The state of one serialization: cache.cache, the registry, the exception
\* raised, the value last returned; stores lists the ids in the order of the
\* assignments `self.cache[id] = ...`
Ret(st, v) == [st EXCEPT !.out = v]

\* str(uuid.uuid4()): an id no earlier call gave
Uuid4(st) == Str(Len(st.reg) + 1)

\* `widget.callback_registry[id] = obj`
Register(st, obj) == [st EXCEPT !.reg = Append(@, obj.call.v)]

RECURSIVE dumps(_, _, _, _)

\* to_json(data, widget, cache): the document, or the exception
to_json(st, data, widget, cache) == dumps(st, data, widget, cache)

\* `self.cache[id] = orjson.Fragment(to_json(value, **kwargs))`, done being
\* what to_json left
EntryStore(done, id) ==
    IF done.err # NoErr THEN done
    ELSE [done EXCEPT !.cache = Put(@, id, Fragment(done.out)),
                      !.stores = Append(@, id),
                      !.out = Tagged("cached", "id", Str(id))]

\* Cache.entry without its test `if id not in self.cache`
EntryAlways(st, id, value, widget) == EntryStore(to_json(st, value, widget, TRUE), id)

\* Cache.entry(self, id, value, **kwargs)
Entry(st, id, value, widget) ==
    IF id \notin DOMAIN st.cache
    THEN EntryStore(to_json(st, value, widget, TRUE), id)
    ELSE Ret(st, Tagged("cached", "id", Str(id)))

\* the callable branch that registers without a widget too
CallableAlways(st, obj, widget) ==
    Ret(Register(st, obj), Tagged("callback", "id", Uuid4(st)))

\* `elif callable(obj):`
Callable(st, obj, widget) ==
    IF widget # 0
    THEN Ret(Register(st, obj), Tagged("callback", "id", Uuid4(st)))
    ELSE Ret(st, None)

\* `default` with null for what it has no branch for
DefaultRestNull(st, obj, widget) ==
    IF obj.t = "cache" THEN Ret(st, Dict(st.cache))
    ELSE IF Has(obj, "for_json") THEN Ret(st, obj.for_json)
    ELSE IF Has(obj, "tolist") THEN Ret(st, obj.tolist)
    ELSE IF Has(obj, "items") THEN Ret(st, obj.items)
    ELSE IF Has(obj, "isoformat") THEN Ret(st, Tagged("datetime", "value", obj.isoformat))
    ELSE IF Has(obj, "call") THEN Callable(st, obj, widget)
    ELSE Ret(st, None)

\* the branches of `default` after the test of cache_id
DefaultRest(st, obj, widget) ==
    IF obj.t = "cache" THEN Ret(st, Dict(st.cache))
    ELSE IF Has(obj, "for_json") THEN Ret(st, obj.for_json)
    ELSE IF Has(obj, "tolist") THEN Ret(st, obj.tolist)
    ELSE IF Has(obj, "items") THEN Ret(st, obj.items)
    ELSE IF Has(obj, "isoformat") THEN Ret(st, Tagged("datetime", "value", obj.isoformat))
    ELSE IF Has(obj, "call") THEN Callable(st, obj, widget)
    ELSE Raise(st, "TypeError")

\* default(obj), the function to_json gives to orjson.dumps
default(st, obj, widget, cache) ==
    IF obj.t = "obj" /\ Has(obj, "cache_id") /\ cache
    THEN IF Has(obj, "for_json") THEN Entry(st, obj.cache_id.v, obj.for_json, widget)
         ELSE Raise(st, "AttributeError")
    ELSE DefaultRest(st, obj, widget)

RECURSIVE DumpList(_, _, _, _, _), DumpDict(_, _, _, _, _, _)

\* orjson.dumps on what `default` returned
DumpReturned(st, widget, cache) == dumps(st, st.out, widget, cache)

DumpListNext(st, rest, acc, widget, cache) ==
    DumpList(st, rest, Append(acc, st.out), widget, cache)

DumpList(st, items, acc, widget, cache) ==
    IF st.err # NoErr THEN st
    ELSE IF items = <<>> THEN Ret(st, List(acc))
    ELSE DumpListNext(dumps(st, Head(items), widget, cache), Tail(items), acc, widget, cache)

DumpDictNext(st, d, k, rest, acc, widget, cache) ==
    DumpDict(st, d, rest, Put(acc, k, st.out), widget, cache)

DumpDict(st, d, ks, acc, widget, cache) ==
    IF st.err # NoErr THEN st
    ELSE IF ks = <<>> THEN Ret(st, Dict(acc))
    ELSE DumpDictNext(dumps(st, d[Head(ks)], widget, cache), d, Head(ks), Tail(ks), acc,
                      widget, cache)

\* orjson.dumps(data, default=default): lists and dicts item by item, a
\* Fragment as the document it holds, an instance of datetime.date or
\* datetime.datetime as its RFC 3339 string (no option asks orjson to pass
\* it through), any other object through `default`, whose result is
\* serialized in its turn
dumps(st, v, widget, cache) ==
    IF st.err # NoErr THEN st
    ELSE CASE v.t = "list" -> DumpList(st, v.l, <<>>, widget, cache)
           [] v.t = "dict" -> DumpDict(st, v.d, KeysOf(v.d), EmptyDict, widget, cache)
           [] v.t = "fragment" -> Ret(st, v.json)
           [] v.t = "date" -> Ret(st, Str(v.v))
           [] v.t \in {"obj", "cache"} -> DumpReturned(default(st, v, widget, cache), widget, cache)
           [] OTHER -> Ret(st, v)

\* a serialization starts: an empty cache, the registry as it is
Start(reg) == [cache |-> EmptyDict, stores |-> <<>>, reg |-> reg, err |-> NoErr, out |-> None]

\* to_json_with_cache(data, widget)
to_json_with_cache(reg, data, widget) ==
    to_json(Start(reg), Dict(Put(Put(EmptyDict, "ast", data), "cache", TheCache)), widget, TRUE)

\* Widget.handle_callback that takes an unknown id for a callback not set
handle_callback_lenient(reg, params) ==
    IF params.id \in DOMAIN reg
    THEN [invoked |-> <<[f |-> reg[params.id], arg |-> params.event]>>, err |-> NoErr,
          out |-> "ok"]
    ELSE [invoked |-> <<>>, err |-> NoErr, out |-> "ok"]

\* Widget.handle_callback(self, params, buffers)
handle_callback(reg, params) ==
    IF params.id \in DOMAIN reg
    THEN [invoked |-> <<[f |-> reg[params.id], arg |-> params.event]>>, err |-> NoErr,
          out |-> "ok"]
    ELSE [invoked |-> <<>>, err |-> "KeyError", out |-> "none"]

-----------------------------------------------------------------------------
(* What is serialized *)

Callback(f) == Obj(Absent, Absent, Absent, Absent, Absent, Str(f))
Plain == Obj(Absent, Absent, Absent, Absent, Absent, Absent)
Array == Obj(Absent, Absent, List(<<Atom(1), Atom(2)>>), Absent, Absent, Absent)
\* a callable object that has for_json too
CallableView == Obj(Absent, Atom(8), Absent, Absent, Absent, Str("h"))

\* what the object with a cache id holds: one id, one value
ValueC == List(<<Atom(1), Array>>)
CachedValue(id) ==
    CASE id = "c" -> ValueC
      [] id = "d" -> List(<<Obj(Str("c"), ValueC, Absent, Absent, Absent, Absent), Callback("g")>>)
      [] OTHER -> List(<<Plain>>)
Cached(id) == Obj(Str(id), CachedValue(id), Absent, Absent, Absent, Absent)

Documents ==
    { List(<<Cached("c"), Cached("c")>>),
      List(<<Cached("d"), Atom(3), Cached("c"), Cached("d")>>),
      Dict(Put(Put(EmptyDict, "a", Callback("f")), "b", List(<<Callback("g"), Atom(3)>>))),
      List(<<Callback("f"), Callback("f")>>),
      List(<<Cached("c"), Callback("f"), Plain>>),
      List(<<Atom(3), Cached("e")>>),
      List(<<Array, CallableView>>) }

Events == {"click", "move"}

-----------------------------------------------------------------------------
(* The serialization session *)

Sent(op, data, widget, st) ==
    [op |-> op, data |-> data, widget |-> widget, registered |-> Len(callback_registry),
     cache |-> st.cache, stores |-> st.stores, err |-> st.err,
     out |-> IF st.err = NoErr THEN st.out ELSE None]

Serialized(op, data, widget, st) ==
    /\ Len(st.reg) <= MaxCallbacks
    /\ callback_registry' = st.reg
    /\ last' = Sent(op, data, widget, st)
    /\ UNCHANGED <<heap, plotSpecs, widgets>>

\* widget.data = data, or to_json_with_cache(data) with no widget
ToJsonWithCache(data, widget) ==
    Serialized("to_json_with_cache", data, widget,
               to_json_with_cache(callback_registry, data, widget))

\* to_json(data, widget=widget), as update_cache calls it
ToJson(data, widget) ==
    Serialized("to_json", data, widget, to_json(Start(callback_registry), data, widget, FALSE))

Handled(params, r) ==
    /\ last' = [op |-> "handle_callback", params |-> params, invoked |-> r.invoked,
                err |-> r.err, out |-> r.out]
    /\ UNCHANGED <<heap, plotSpecs, widgets, callback_registry>>

\* the front end calls back: widget.handle_callback(params, buffers)
HandleCallback(params) == Handled(params, handle_callback(callback_registry, params))

Serialization ==
    \/ \E data \in Documents, widget \in {0, 1} : ToJsonWithCache(data, widget)
    \/ \E data \in Documents, widget \in {0, 1} : ToJson(data, widget)
    \/ \E id \in 1..(MaxCallbacks + 1), event \in Events :
          HandleCallback([id |-> id, event |-> event])

SpecJson == Init /\ [][Serialization]_vars

-----------------------------------------------------------------------------
(* Composition: what + gives and what it leaves *)

Added == last.op = "add" /\ last.err = NoErr

Options(f) == [k \in DOMAIN f \ {"marks"} |-> f[k]]

\* C1: PlotSpec.__add__ leaves both operands unchanged: after a + b every
\* PlotSpec, a and a PlotSpec b among them, holds the marks and the options,
\* nested option dicts included, that it held before the call.
C1_AddLeavesOperands == Added => Snapshot(heap, plotSpecs) = last.before

\* the marks a value contributes, left to right and depth first
RECURSIVE FlatMarks(_, _), FlatMarksOfList(_, _)
FlatMarks(v, before) ==
    CASE v.t = "mark" -> <<v>>
      [] v.t = "ps" -> FlatMarks(before[v.p], before)
      [] v.t = "list" -> FlatMarksOfList(v.l, before)
      [] v.t = "dict" ->
            IF "marks" \in DOMAIN v.d /\ v.d["marks"].t = "list"
            THEN FlatMarksOfList(v.d["marks"].l, before) ELSE <<>>
      [] OTHER -> <<>>
FlatMarksOfList(l, before) ==
    IF l = <<>> THEN <<>> ELSE FlatMarks(Head(l), before) \o FlatMarksOfList(Tail(l), before)

\* C2: marks accumulate: the marks of a + b are the marks of a followed by
\* the marks of b, flattened left to right and depth first, none dropped and
\* none duplicated.
C2_MarksAccumulate ==
    Added =>
        last.result.d["marks"].l
            = last.before[last.self].d["marks"].l \o FlatMarks(last.specs, last.before)

C2_Witness ==
    /\ Added
    /\ last.specs.t = "list"
    /\ \E x \in 1..Len(last.specs.l) : last.specs.l[x].t = "list"
    /\ last.before[last.self].d["marks"].l # <<>>
    /\ Len(last.result.d["marks"].l) >= Len(last.before[last.self].d["marks"].l) + 3

\* the right operand wins, dicts under one key being merged by the same rule
RECURSIVE Merged(_, _)
Merged(f, g) ==
    [k \in DOMAIN f \cup DOMAIN g |->
        IF k \notin DOMAIN g THEN f[k]
        ELSE IF k \in DOMAIN f /\ f[k].t = "dict" /\ g[k].t = "dict"
             THEN Dict(Merged(f[k].d, g[k].d))
             ELSE g[k]]

RightOperand == IF last.specs.t = "ps" THEN last.before[last.specs.p] ELSE last.specs

\* C3: options are merged, the right operand winning: an option of a + b is
\* b's where b defines it and a's otherwise, two dicts under one key being
\* merged by the same rule.
C3_OptionsMerged ==
    (Added /\ last.specs.t \in {"ps", "dict"}) =>
        Options(last.result.d) = Merged(Options(last.before[last.self].d), Options(RightOperand.d))

C3_Witness ==
    /\ Added
    /\ last.specs.t = "ps"
    /\ last.specs.p # last.self
    /\ "x" \in DOMAIN last.before[last.self].d
    /\ "x" \in DOMAIN RightOperand.d
    /\ last.result.d["x"] # last.before[last.self].d["x"]
    /\ last.result.d["x"] # RightOperand.d["x"]

-----------------------------------------------------------------------------
(* The widget of a PlotSpec *)

Made == Cardinality(DOMAIN widgets)
Self == plotSpecs[last.self]
PlotCalls == {"plot", "repr", "reset", "update"}

\* C4: the widget is made lazily and cached: a PlotSpec has no widget until
\* plot() is first called on it (by the program, by _repr_mimebundle_, by
\* reset or by update); that call makes exactly one Widget, and every later
\* call gives that same Widget and makes none.
C4_WidgetLazyCached ==
    /\ last.op \in {"new", "add"} => Made = last.made
    /\ last.op = "new" => Self.plot = 0
    /\ last.op \in PlotCalls =>
          IF last.plot = 0
          THEN Made = last.made + 1 /\ Self.plot \in DOMAIN widgets /\ Self.plot > last.made
          ELSE Made = last.made /\ Self.plot = last.plot
    /\ Made = Cardinality({p \in SpecIds : plotSpecs[p].plot # 0})

C4_Witness == last.op = "plot" /\ last.plot # 0 /\ Self.plot = last.plot /\ Made = 1

\* the options a value contributes: those of each option dict it holds, in
\* the order the dicts are met, a later one winning
RECURSIVE FlatOptions(_), FlatOptionsOfList(_)
FlatOptions(v) ==
    CASE v.t = "list" -> FlatOptionsOfList(v.l)
      [] v.t = "dict" ->
            IF "marks" \in DOMAIN v.d /\ v.d["marks"].t = "list"
            THEN Merged(Options(v.d), FlatOptionsOfList(v.d["marks"].l))
            ELSE Options(v.d)
      [] OTHER -> EmptyDict
FlatOptionsOfList(l) ==
    IF l = <<>> THEN EmptyDict ELSE Merged(FlatOptions(Head(l)), FlatOptionsOfList(Tail(l)))

SelfSpec == Deref(heap, Self.spec)

\* C5: reset(*specs, **kwargs) leaves the PlotSpec with the marks and the
\* options of the given specs and nothing of its previous spec, keeps the
\* widget it had, and sets the widget's data to the default plot options
\* overridden by the new spec.
C5_ResetReplaces ==
    last.op = "reset" =>
        /\ SelfSpec["marks"].l
              = FlatMarks(last.specs, last.before) \o FlatMarks(Dict(last.kwargs), last.before)
        /\ Options(SelfSpec) = Merged(FlatOptions(last.specs), FlatOptions(Dict(last.kwargs)))
        /\ last.plot # 0 => Self.plot = last.plot /\ Made = last.made
        /\ Deref(heap, widgets[Self.plot].data) = Spread(plot_options_default, SelfSpec)

C5_Witness ==
    /\ last.op = "reset"
    /\ last.plot # 0
    /\ last.before[last.self].d["marks"].l # <<>>
    /\ "x" \in DOMAIN last.before[last.self].d
    /\ last.before[last.self].d["x"].t = "dict"
    /\ "y" \notin DOMAIN last.before[last.self].d
    /\ "x" \in DOMAIN SelfSpec
    /\ SelfSpec["x"] = Atom(4)
    /\ SelfSpec["y"] = Atom(5)
    /\ SelfSpec["marks"].l = <<M2>>

\* C6: update(*specs, marks=..., **kwargs) works in place and keeps the
\* widget; marks, when given, replaces the marks: afterwards the PlotSpec's
\* marks are the given list, whatever marks it had and whatever marks the
\* specs of the same call brought.
C6_UpdateMarksOverwrite ==
    last.op = "update" =>
        /\ last.marks # None => SelfSpec["marks"] = last.marks
        /\ last.plot # 0 => Self.plot = last.plot /\ Made = last.made
        /\ widgets[Self.plot].data = Self.spec

C6_Witness ==
    /\ last.op = "update"
    /\ last.marks = List(<<M2>>)
    /\ last.plot # 0
    /\ last.specs = List(<<M1, OptA>>)

-----------------------------------------------------------------------------
(* Serialization: what a document holds for what it was given *)

Sends == {"to_json", "to_json_with_cache"}
SentOk == last.op \in Sends /\ last.err = NoErr
CacheOn == last.op = "to_json_with_cache"

\* the document of the data given, the cache apart
Doc == IF CacheOn THEN last.out.d["ast"] ELSE last.out

Range(s) == {s[i] : i \in 1..Len(s)}
NoDuplicates(s) == \A i, j \in 1..Len(s) : s[i] = s[j] => i = j

IsCallbackRef(v) ==
    v.t = "dict" /\ DOMAIN v.d = {"__type__", "id"} /\ v.d["__type__"] = Str("callback")

\* out is data as JSON: lists and dicts item by item, an object with a cache
\* id as a reference to the stored document of its value, a callable as the
\* reference to its registry entry or as null
RECURSIVE Renders(_, _)
Renders(data, out) ==
    CASE data.t = "list" ->
            /\ out.t = "list"
            /\ Len(out.l) = Len(data.l)
            /\ \A i \in 1..Len(data.l) : Renders(data.l[i], out.l[i])
      [] data.t = "dict" ->
            /\ out.t = "dict"
            /\ DOMAIN out.d = DOMAIN data.d
            /\ \A k \in DOMAIN data.d : Renders(data.d[k], out.d[k])
      [] data.t = "obj" ->
            IF Has(data, "cache_id") /\ CacheOn
            THEN /\ out = Tagged("cached", "id", data.cache_id)
                 /\ data.cache_id.v \in DOMAIN last.cache
                 /\ Renders(data.for_json, last.cache[data.cache_id.v].json)
            ELSE IF Has(data, "for_json") THEN Renders(data.for_json, out)
            ELSE IF Has(data, "tolist") THEN Renders(data.tolist, out)
            ELSE IF Has(data, "items") THEN Renders(data.items, out)
            ELSE IF Has(data, "isoformat")
                 THEN out = Tagged("datetime", "value", data.isoformat)
            ELSE IF Has(data, "call")
                 THEN IF last.widget # 0
                      THEN /\ IsCallbackRef(out)
                           /\ out.d["id"].v \in DOMAIN callback_registry
                           /\ callback_registry[out.d["id"].v] = data.call.v
                      ELSE out = None
            ELSE FALSE
      [] OTHER -> out = data

\* the cache ids met in the data, those in the values of cached objects too
RECURSIVE CacheIds(_)
CacheIds(data) ==
    CASE data.t = "list" -> UNION {CacheIds(data.l[i]) : i \in 1..Len(data.l)}
      [] data.t = "dict" -> UNION {CacheIds(data.d[k]) : k \in DOMAIN data.d}
      [] data.t = "obj" ->
            IF Has(data, "cache_id") THEN {data.cache_id.v} \cup CacheIds(data.for_json)
            ELSE IF Has(data, "for_json") THEN CacheIds(data.for_json)
            ELSE {}
      [] OTHER -> {}

\* C7: cached sub-documents are addressed by id: Cache.entry(id, value) gives
\* the reference {"__type__": "cached", "id": id} wherever the object stands,
\* and the value is serialized and stored the first time its id is met only:
\* in one serialization each id is stored at most once, the stored ids are
\* the ids met, and what is stored under an id is the document of its value.
C7_CachedOnce ==
    last.op \in Sends =>
        /\ NoDuplicates(last.stores)
        /\ DOMAIN last.cache = Range(last.stores)
        /\ ~CacheOn => last.stores = <<>>
        /\ SentOk /\ CacheOn =>
              /\ Range(last.stores) = CacheIds(last.data)
              /\ Renders(last.data, Doc)
              /\ last.out.d["cache"] = Dict([id \in DOMAIN last.cache |-> last.cache[id].json])

C7_Witness ==
    /\ SentOk
    /\ CacheOn
    /\ last.data = List(<<Cached("d"), Atom(3), Cached("c"), Cached("d")>>)
    /\ last.stores = <<"c", "d">>
    /\ Doc.l[1] = Doc.l[4]
    /\ Doc.l[1] = Tagged("cached", "id", Str("d"))

\* the ids of the callback references of a document, in the order of the keys
RECURSIVE CallbackIds(_), CallbackIdsOfList(_), CallbackIdsOfDict(_, _)
CallbackIds(v) ==
    CASE v.t = "list" -> CallbackIdsOfList(v.l)
      [] v.t = "dict" ->
            IF IsCallbackRef(v) THEN <<v.d["id"].v>> ELSE CallbackIdsOfDict(v.d, KeysOf(v.d))
      [] OTHER -> <<>>
CallbackIdsOfList(l) ==
    IF l = <<>> THEN <<>> ELSE CallbackIds(Head(l)) \o CallbackIdsOfList(Tail(l))
CallbackIdsOfDict(d, ks) ==
    IF ks = <<>> THEN <<>> ELSE CallbackIds(d[Head(ks)]) \o CallbackIdsOfDict(d, Tail(ks))

\* C8: a callable becomes a callback reference in widget mode only: with a
\* widget each callable met (one that has no for_json or tolist and is not
\* iterable) is stored in callback_registry under an id no entry had, and the
\* document holds {"__type__": "callback", "id": id} with that id in its
\* place; with no widget the document holds null in its place and nothing is
\* registered.
C8_CallbackReference ==
    last.op \in Sends =>
        /\ SentOk => Renders(last.data, Doc)
        /\ last.widget = 0 =>
              /\ Len(callback_registry) = last.registered
              /\ SentOk => CallbackIds(last.out) = <<>>
        /\ SentOk /\ last.widget # 0 =>
              /\ NoDuplicates(CallbackIds(last.out))
              /\ Range(CallbackIds(last.out)) = (last.registered + 1)..Len(callback_registry)

C8_Witness ==
    /\ SentOk
    /\ last.widget # 0
    /\ last.registered >= 1
    /\ last.data = Dict(Put(Put(EmptyDict, "a", Callback("f")), "b", List(<<Callback("g"), Atom(3)>>)))
    /\ Len(callback_registry) = last.registered + 2
    /\ Doc.d["a"] = Tagged("callback", "id", Str(last.registered + 1))
    /\ callback_registry[Doc.d["b"].l[1].d["id"].v] = "g"

C8_WitnessNoWidget ==
    /\ SentOk
    /\ last.widget = 0
    /\ last.data = List(<<Callback("f"), Callback("f")>>)
    /\ last.out = List(<<None, None>>)

\* C9: handle_callback with params {id, event} calls the callable registered
\* under id once with params["event"] as its one argument, calls no other,
\* and returns "ok"; for an id the registry does not hold it raises and
\* calls nothing.
C9_HandleCallback ==
    last.op = "handle_callback" =>
        IF last.params.id \in DOMAIN callback_registry
        THEN /\ last.invoked
                  = <<[f |-> callback_registry[last.params.id], arg |-> last.params.event]>>
             /\ last.err = NoErr
             /\ last.out = "ok"
        ELSE /\ last.invoked = <<>>
             /\ last.err # NoErr
             /\ last.out # "ok"

C9_Witness ==
    /\ last.op = "handle_callback"
    /\ Len(callback_registry) >= 2
    /\ callback_registry[1] # callback_registry[2]
    /\ last.params.id = 2
    /\ last.out = "ok"
    /\ Len(last.invoked) = 1

C9_WitnessUnknown ==
    /\ last.op = "handle_callback"
    /\ callback_registry # <<>>
    /\ last.params.id \notin DOMAIN callback_registry
    /\ last.err = "KeyError"

\* the data holds an object `default` has no branch for
RECURSIVE Unsupported(_)
Unsupported(data) ==
    CASE data.t = "list" -> \E i \in 1..Len(data.l) : Unsupported(data.l[i])
      [] data.t = "dict" -> \E k \in DOMAIN data.d : Unsupported(data.d[k])
      [] data.t = "obj" ->
            IF Has(data, "for_json") THEN Unsupported(data.for_json)
            ELSE IF Has(data, "tolist") THEN Unsupported(data.tolist)
            ELSE IF Has(data, "items") THEN Unsupported(data.items)
            ELSE ~Has(data, "isoformat") /\ ~Has(data, "call")
      [] OTHER -> FALSE

\* C10: a value of a type that is not supported makes to_json raise
\* TypeError, and no document comes out: that is so for data holding an
\* object with no cache_id, for_json or tolist that is not iterable, not a
\* date and not callable, in a cached value too, and for no other data.
C10_UnsupportedRaises ==
    last.op \in Sends =>
        IF Unsupported(last.data)
        THEN last.err = "TypeError" /\ last.out = None
        ELSE last.err = NoErr /\ last.out # None

C10_Witness ==
    /\ last.op \in Sends
    /\ last.data = List(<<Cached("c"), Callback("f"), Plain>>)
    /\ last.widget # 0
    /\ last.err = "TypeError"
    /\ last.out = None

C10_WitnessCached ==
    /\ CacheOn
    /\ last.data = List(<<Atom(3), Cached("e")>>)
    /\ last.err = "TypeError"
    /\ last.stores = <<>>

-----------------------------------------------------------------------------
(* Composition: malformed operands *)

\* a list or tuple holds, at some depth, an element that is no PlotSpec,
\* dict, list or tuple
RECURSIVE Invalid(_)
Invalid(l) ==
    \E i \in 1..Len(l) :
        CASE l[i].t = "list" -> Invalid(l[i].l)
          [] l[i].t \in {"dict", "mark", "ps"} -> FALSE
          [] OTHER -> TRUE

\* C11: a malformed operand of + is reported by raising at once and the
\* receiver is left as it was: TypeError when the operand is no PlotSpec,
\* dict, list or tuple, ValueError when a list or tuple holds at any depth an
\* element that is none of these; no PlotSpec is returned and every
\* PlotSpec, the left operand first, holds the marks and options, nested
\* option dicts included, that it held before the call, valid elements
\* before the invalid one or not.
C11_MalformedRaises ==
    last.op = "add" =>
        /\ last.specs.t \notin {"ps", "dict", "mark", "list"} => last.err = "TypeError"
        /\ last.specs.t = "list" /\ Invalid(last.specs.l) => last.err = "ValueError"
        /\ last.err # NoErr =>
              /\ last.result = None
              /\ Snapshot(heap, plotSpecs) = last.before

\* C11, the part that is about the exception alone
C11_Raises ==
    last.op = "add" =>
        /\ last.specs.t \notin {"ps", "dict", "mark", "list"} => last.err = "TypeError"
        /\ last.specs.t = "list" /\ Invalid(last.specs.l) => last.err = "ValueError"
        /\ last.err # NoErr => last.result = None

-----------------------------------------------------------------------------
(* margin: genstudio/plot.py and gen/studio/plot.py *)

MaxArgs == 5        \* most arguments margin is called with
MaxMargin == 3      \* largest margin value

\* what a function gives: the value returned, or the exception raised
Returned(v) == [err |-> NoErr, out |-> v]
Raised(e) == [err |-> e, out |-> None]

Record4(k1, v1, k2, v2, k3, v3, k4, v4) ==
    Dict(Put(Put(Put(Put(EmptyDict, k1, Atom(v1)), k2, Atom(v2)), k3, Atom(v3)), k4, Atom(v4)))

\* margin that takes three arguments as vertical, right, bottom
margin_clockwise(args) ==
    IF Len(args) = 1 THEN Returned(Dict(Put(EmptyDict, "margin", Atom(args[1]))))
    ELSE IF Len(args) = 2
         THEN Returned(Record4("marginTop", args[1], "marginBottom", args[1],
                               "marginLeft", args[2], "marginRight", args[2]))
    ELSE IF Len(args) = 3
         THEN Returned(Record4("marginTop", args[1], "marginRight", args[2],
                               "marginBottom", args[3], "marginLeft", args[1]))
    ELSE IF Len(args) = 4
         THEN Returned(Record4("marginTop", args[1], "marginRight", args[2],
                               "marginBottom", args[3], "marginLeft", args[4]))
    ELSE Raised("ValueError")

\* genstudio.plot.margin(*args)
margin(args) ==
    IF Len(args) = 1 THEN Returned(Dict(Put(EmptyDict, "margin", Atom(args[1]))))
    ELSE IF Len(args) = 2
         THEN Returned(Record4("marginTop", args[1], "marginBottom", args[1],
                               "marginLeft", args[2], "marginRight", args[2]))
    ELSE IF Len(args) = 3
         THEN Returned(Record4("marginTop", args[1], "marginLeft", args[2],
                               "marginRight", args[2], "marginBottom", args[3]))
    ELSE IF Len(args) = 4
         THEN Returned(Record4("marginTop", args[1], "marginRight", args[2],
                               "marginBottom", args[3], "marginLeft", args[4]))
    ELSE Raised("ValueError")

\* gen.studio.plot.margin(*args)
gen_studio_margin(args) ==
    IF Len(args) = 1 THEN Returned(Dict(Put(EmptyDict, "margin", Atom(args[1]))))
    ELSE IF Len(args) = 2
         THEN Returned(Record4("marginTop", args[1], "marginBottom", args[1],
                               "marginLeft", args[2], "marginRight", args[2]))
    ELSE IF Len(args) = 3
         THEN Returned(Record4("marginTop", args[1], "marginLeft", args[2],
                               "marginRight", args[2], "marginBottom", args[3]))
    ELSE IF Len(args) = 4
         THEN Returned(Record4("marginTop", args[1], "marginRight", args[2],
                               "marginBottom", args[3], "marginLeft", args[4]))
    ELSE Raised("ValueError")

RECURSIVE Tuples(_, _)
Tuples(S, n) == IF n = 0 THEN {<<>>} ELSE {Append(t, x) : t \in Tuples(S, n - 1), x \in S}

MarginArgs == UNION {Tuples(1..MaxMargin, n) : n \in 0..MaxArgs}

\* the program about to call a function with the arguments it chose
Given(call) ==
    /\ heap = [a \in {} |-> EmptyDict]
    /\ plotSpecs = [p \in SpecIds |-> NoSpec]
    /\ widgets = [w \in {} |-> NoSpec]
    /\ callback_registry = <<>>
    /\ last = call

Applied(op, args, r) ==
    /\ last' = [op |-> op, args |-> args, err |-> r.err, out |-> r.out]
    /\ UNCHANGED <<heap, plotSpecs, widgets, callback_registry>>

InitMargin == \E args \in MarginArgs : Given([op |-> "args", args |-> args])

Margin == last.op = "args" /\ Applied("margin", last.args, margin(last.args))
GenStudioMargin ==
    last.op = "args" /\ Applied("gen.studio.margin", last.args, gen_studio_margin(last.args))

Margins == Margin \/ GenStudioMargin

SpecMargin == InitMargin /\ [][Margins]_vars

\* the four sides of the CSS shorthand, for two to four values
Sides(top, right, bottom, left) ==
    Dict([k \in {"marginTop", "marginRight", "marginBottom", "marginLeft"} |->
            Atom(CASE k = "marginTop" -> top
                   [] k = "marginRight" -> right
                   [] k = "marginBottom" -> bottom
                   [] OTHER -> left)])

\* C12: margin follows the CSS margin shorthand for one to four arguments
\* and raises ValueError for none and for five or more: margin(a) is
\* {margin: a}; (v, h) is top = bottom = v, left = right = h; (t, h, b) is
\* top = t, left = right = h, bottom = b; (t, r, b, l) is the four sides in
\* that order.  The two copies of margin give the same for the same
\* arguments.
C12_MarginShorthand ==
    last.op \in {"margin", "gen.studio.margin"} =>
        /\ Len(last.args) = 1 =>
              last.err = NoErr /\ last.out = Dict([k \in {"margin"} |-> Atom(last.args[1])])
        /\ Len(last.args) = 2 =>
              /\ last.err = NoErr
              /\ last.out = Sides(last.args[1], last.args[2], last.args[1], last.args[2])
        /\ Len(last.args) = 3 =>
              /\ last.err = NoErr
              /\ last.out = Sides(last.args[1], last.args[2], last.args[3], last.args[2])
        /\ Len(last.args) = 4 =>
              /\ last.err = NoErr
              /\ last.out = Sides(last.args[1], last.args[2], last.args[3], last.args[4])
        /\ Len(last.args) \notin 1..4 => last.err = "ValueError" /\ last.out = None
        /\ margin(last.args) = gen_studio_margin(last.args)

C12_Witness ==
    /\ last.op = "margin"
    /\ last.args = <<1, 2, 3>>
    /\ last.out.d["marginLeft"] = Atom(2)
    /\ last.out.d["marginBottom"] = Atom(3)

C12_WitnessArity ==
    /\ last.op = "gen.studio.margin"
    /\ Len(last.args) = 5
    /\ last.err = "ValueError"

-----------------------------------------------------------------------------
(* get_in and Dimensioned: genstudio/plot.py *)

MaxPath == 4        \* longest path get_in is given

\* a path segment: a string key, or a dict {...: name}, {"leaves": name} or
\* {"as": name}, which gen.studio.plot takes for the leaf and genstudio.plot
\* does not know; "..." stands for the Ellipsis object
Key(k) == Str(k)
Dim(name) == Dict([k \in {"..."} |-> Str(name)])
Leaves(name) == Dict([k \in {"leaves"} |-> Str(name)])
As(name) == Dict([k \in {"as"} |-> Str(name)])
IsDictSegment(segment) == segment.t = "dict"

\* _rename_key(d, prev_k, new_k)
_rename_key(d, prev_k, new_k) ==
    [k \in {IF x = prev_k THEN new_k ELSE x : x \in DOMAIN d} |->
        IF k = new_k /\ prev_k \in DOMAIN d THEN d[prev_k] ELSE d[k]]

RenameSegment(segment) == Dict(_rename_key(segment.d, "...", "key"))

MapSeq(s, Op(_)) == [i \in 1..Len(s) |-> Op(s[i])]

\* Dimensioned.__init__(self, value, path)
Dimensioned(value, path) ==
    [t |-> "dimensioned", value |-> value,
     dimensions |-> MapSeq(SelectSeq(path, IsDictSegment), RenameSegment)]

RECURSIVE process_segment(_, _), ProcessEach(_, _, _)

\* the list comprehension that puts the results in the opposite order
ProcessNextReversed(r, rest, remaining_path, acc) ==
    IF r.err # NoErr THEN r ELSE ProcessEach(rest, remaining_path, <<r.out>> \o acc)

\* the list comprehension, one element done: its exception ends it
ProcessNext(r, rest, remaining_path, acc) ==
    IF r.err # NoErr THEN r ELSE ProcessEach(rest, remaining_path, Append(acc, r.out))

\* `[process_segment(v, remaining_path[i + 1 :]) for v in value]`
ProcessEach(value, remaining_path, acc) ==
    IF value = <<>> THEN Returned(List(acc))
    ELSE ProcessNext(process_segment(Head(value), remaining_path), Tail(value),
                     remaining_path, acc)

\* `value = value[segment]`, and the rest of the loop
Subscript(value, segment, remaining_path) ==
    IF value.t = "dict"
    THEN IF segment.v \in DOMAIN value.d
         THEN process_segment(value.d[segment.v], remaining_path)
         ELSE Raised("KeyError")
    ELSE Raised("TypeError")

\* process_segment that takes any dict segment without ... for the leaves
process_segment_lenient(value, remaining_path) ==
    IF remaining_path = <<>> THEN Returned(value)
    ELSE IF IsDictSegment(Head(remaining_path))
         THEN IF "..." \in DOMAIN Head(remaining_path).d
              THEN IF value.t = "list"
                   THEN ProcessEach(value.l, Tail(remaining_path), <<>>)
                   ELSE Raised("TypeError")
              ELSE Returned(value)
         ELSE Subscript(value, Head(remaining_path), Tail(remaining_path))

\* get_in.process_segment(value, remaining_path)
process_segment(value, remaining_path) ==
    IF remaining_path = <<>> THEN Returned(value)
    ELSE IF IsDictSegment(Head(remaining_path))
         THEN IF "..." \in DOMAIN Head(remaining_path).d
              THEN IF value.t = "list"
                   THEN ProcessEach(value.l, Tail(remaining_path), <<>>)
                   ELSE Raised("TypeError")
              ELSE IF "leaves" \in DOMAIN Head(remaining_path).d
                   THEN Returned(value)
                   ELSE Raised("TypeError")
         ELSE Subscript(value, Head(remaining_path), Tail(remaining_path))

\* `if any(isinstance(elem, dict) for elem in path): return Dimensioned(value, path)`
GetInDone(r, path) ==
    IF r.err # NoErr THEN r
    ELSE IF \E i \in 1..Len(path) : IsDictSegment(path[i])
         THEN Returned(Dimensioned(r.out, path))
         ELSE r

\* get_in(data, path), data being a dict or a list
get_in(data, path) == GetInDone(process_segment(data, path), path)

RECURSIVE _flatten(_, _, _, _), FlattenEach(_, _, _, _, _, _)

\* `results.extend(_flatten(v, dims[1:], new_prefix))` done for one item
FlattenNext(r, rest, i, dims, prefix, leaf, acc) ==
    IF r.err # NoErr THEN r ELSE FlattenEach(rest, i + 1, dims, prefix, leaf, acc \o r.out)

\* `for i, v in enumerate(value)`, from item i on
FlattenEach(items, i, dims, prefix, leaf, acc) ==
    IF items = <<>> THEN Returned(acc)
    ELSE FlattenNext(_flatten(Head(items), Tail(dims),
                              Put(prefix, Head(dims).d["key"].v, Atom(i)), leaf),
                     Tail(items), i, dims, prefix, leaf, acc)

\* what `enumerate(value)` goes through
Iterate(value, dims, prefix, leaf) ==
    CASE value.t = "list" -> FlattenEach(value.l, 0, dims, prefix, leaf, <<>>)
      [] value.t = "dict" ->
            FlattenEach(MapSeq(KeysOf(value.d), Str), 0, dims, prefix, leaf, <<>>)
      [] value.t = "str" -> FlattenEach(<<value>>, 0, dims, prefix, leaf, <<>>)
      [] OTHER -> Raised("TypeError")

\* `return [prefix | value] if prefix else [value]`
FlattenLeaf(value, prefix) ==
    IF DOMAIN prefix = {} THEN Returned(<<value>>)
    ELSE IF value.t = "dict" THEN Returned(<<Dict(Spread(prefix, value.d))>>)
    ELSE Raised("TypeError")

\* _flatten without its prefix: a record holds the leaf alone
_flatten_no_prefix(value, dims, prefix, leaf) ==
    IF dims = <<>>
    THEN FlattenLeaf(IF leaf # None THEN Dict([k \in {leaf.v} |-> value]) ELSE value, EmptyDict)
    ELSE IF "key" \notin DOMAIN Head(dims).d THEN Raised("KeyError")
    ELSE Iterate(value, dims, prefix, leaf)

\* Dimensioned.flatten._flatten(value, dims, prefix)
_flatten(value, dims, prefix, leaf) ==
    IF dims = <<>>
    THEN FlattenLeaf(IF leaf # None THEN Dict([k \in {leaf.v} |-> value]) ELSE value, prefix)
    ELSE IF "key" \notin DOMAIN Head(dims).d THEN Raised("KeyError")
    ELSE Iterate(value, dims, prefix, leaf)

\* `leaf = self.dimensions[-1]["leaves"] if ... else None`
LeafOf(dimensions) ==
    IF "leaves" \in DOMAIN dimensions[Len(dimensions)].d
    THEN dimensions[Len(dimensions)].d["leaves"]
    ELSE None

\* Dimensioned.flatten(self)
flatten(self) ==
    _flatten(self.value,
             IF LeafOf(self.dimensions) # None
             THEN SubSeq(self.dimensions, 1, Len(self.dimensions) - 1)
             ELSE self.dimensions,
             EmptyDict, LeafOf(self.dimensions))

-----------------------------------------------------------------------------
(* get_in: gen/studio/plot.py *)

IsDim(segment) == IsDictSegment(segment) /\ "..." \in DOMAIN segment.d
IsAs(segment) == IsDictSegment(segment) /\ "as" \in DOMAIN segment.d

\* Dimensioned.__init__(self, dimensions, leaf=None, value=None)
gen_studio_Dimensioned(dimensions, leaf, value) ==
    [t |-> "dimensioned", value |-> value, leaf |-> leaf, dimensions |-> dimensions]

RECURSIVE gen_studio_get_in(_, _, _), GetInEach(_, _, _)

GetInNext(r, rest, path, acc) ==
    IF r.err # NoErr THEN r ELSE GetInEach(rest, path, Append(acc, r.out))

\* `[get_in(sub_result, path[i+1:], False) for sub_result in result]`
GetInEach(result, path, acc) ==
    IF result = <<>> THEN Returned(List(acc))
    ELSE GetInNext(gen_studio_get_in(Head(result), path, FALSE), Tail(result), path, acc)

\* `result = result[part]`: a str subscripts a dict alone, a dict nothing
GetInSubscript(result, part) ==
    IF IsDictSegment(part) \/ result.t # "dict" THEN Raised("TypeError")
    ELSE IF part.v \in DOMAIN result.d THEN Returned(result.d[part.v])
    ELSE Raised("KeyError")

RECURSIVE GetInLoop(_, _)

GetInLoopNext(r, path) == IF r.err # NoErr THEN r ELSE GetInLoop(r.out, path)

\* `for i, part in enumerate(path)`, from the segment that heads path on
GetInLoop(result, path) ==
    IF path = <<>> THEN Returned(result)
    ELSE IF IsDim(Head(path))
         THEN IF result.t = "list" THEN GetInEach(result.l, Tail(path), <<>>)
              ELSE Raised("TypeError")
    ELSE IF IsAs(Head(path)) THEN Returned(result)
    ELSE GetInLoopNext(GetInSubscript(result, Head(path)), Tail(path))

\* `if toplevel and dimensions: return Dimensioned(dimensions, leaf=leaf, value=result)`
GenStudioGetInDone(r, path, toplevel) ==
    IF r.err # NoErr THEN r
    ELSE IF toplevel /\ SelectSeq(path, IsDim) # <<>>
         THEN Returned(gen_studio_Dimensioned(
                  MapSeq(SelectSeq(path, IsDim), RenameSegment),
                  IF path # <<>> /\ IsAs(path[Len(path)]) THEN path[Len(path)] ELSE None,
                  r.out))
         ELSE r

\* gen.studio.plot.get_in(data, path, toplevel=True)
gen_studio_get_in(data, path, toplevel) ==
    GenStudioGetInDone(GetInLoop(data, path), path, toplevel)

Rows(l) == List(MapSeq(l, Atom))

DataSquare == Dict(Put(EmptyDict, "a", List(<<Rows(<<1, 2>>), Rows(<<3, 4>>)>>)))
DataRecords ==
    Dict(Put(EmptyDict, "a", List(<<Dict(Leaf("b", 1)), Dict(Leaf("b", 2)), Dict(Leaf("b", 3))>>)))
DataEmpty == Dict(Put(Put(EmptyDict, "a", List(<<>>)), "b", Atom(7)))
DataRagged == List(<<Rows(<<5>>), Rows(<<6, 7>>)>>)
DataNested == Dict(Put(EmptyDict, "a", Dict(Put(EmptyDict, "b", Rows(<<8, 9>>)))))

DataCube ==
    List(<<List(<<Rows(<<1, 2, 3>>), Rows(<<4, 5, 6>>)>>),
           List(<<Rows(<<7, 8, 9>>), Rows(<<10, 11, 12>>)>>)>>)

Datas == {DataSquare, DataRecords, DataEmpty, DataRagged, DataNested, DataCube}

Segments ==
    {Key("a"), Key("b"), Dim("first"), Dim("second"), Dim("third"), Leaves("c"), As("c")}

Paths == UNION {Tuples(Segments, n) : n \in 0..MaxPath}

Got(op, data, path, r) ==
    /\ last' = [op |-> op, data |-> data, path |-> path, err |-> r.err, out |-> r.out]
    /\ UNCHANGED <<heap, plotSpecs, widgets, callback_registry>>

InitGetIn ==
    \E data \in Datas, path \in Paths : Given([op |-> "input", data |-> data, path |-> path])

GetIn == last.op = "input" /\ Got("get_in", last.data, last.path, get_in(last.data, last.path))

GenStudioGetIn ==
    /\ last.op = "input"
    /\ Got("gen.studio.get_in", last.data, last.path,
           gen_studio_get_in(last.data, last.path, TRUE))

Flattened(data, path, self, r) ==
    /\ last' = [op |-> "flatten", data |-> data, path |-> path, self |-> self,
                err |-> r.err, out |-> r.out]
    /\ UNCHANGED <<heap, plotSpecs, widgets, callback_registry>>

\* get_in(data, path).flatten()
Flatten ==
    /\ last.op = "get_in"
    /\ last.err = NoErr
    /\ last.out.t = "dimensioned"
    /\ Flattened(last.data, last.path, last.out, flatten(last.out))

GetIns == GetIn \/ GenStudioGetIn \/ Flatten

SpecGetIn == InitGetIn /\ [][GetIns]_vars

\* the names of the {...: name} segments of a path, in path order
DimNames(path) ==
    MapSeq(SelectSeq(path, LAMBDA g : IsDictSegment(g) /\ "..." \in DOMAIN g.d),
           LAMBDA g : g.d["..."])

\* the names the 'key' entries of a dimensions list hold, in order
KeyNames(dimensions) ==
    MapSeq(SelectSeq(dimensions, LAMBDA d : "key" \in DOMAIN d.d), LAMBDA d : d.d["key"])

\* out holds what the path reads in data: one list level for each {...: name}
\* segment, as long as the source list and in its order
RECURSIVE Mirrors(_, _, _)
Mirrors(data, path, out) ==
    IF path = <<>> THEN out = data
    ELSE IF ~IsDictSegment(Head(path)) THEN Mirrors(data.d[Head(path).v], Tail(path), out)
    ELSE IF "..." \in DOMAIN Head(path).d
         THEN /\ out.t = "list"
              /\ Len(out.l) = Len(data.l)
              /\ \A i \in 1..Len(data.l) : Mirrors(data.l[i], Tail(path), out.l[i])
    ELSE out = data

GotIn == last.op = "get_in" /\ last.err = NoErr

C13_WitnessRaw ==
    /\ GotIn
    /\ last.data = DataNested
    /\ last.path = <<Key("a"), Key("b")>>
    /\ last.out = Rows(<<8, 9>>)

-----------------------------------------------------------------------------
(* Dimensioned.flatten: one record per leaf *)

MaxSize == 3        \* longest list of the data

DictSegments(path) == SelectSeq(path, IsDictSegment)

\* the path names k list dimensions, no name twice, and ends with a
\* {"leaves": L} segment whose L is none of the names
Named(path) ==
    /\ path # <<>>
    /\ IsDictSegment(path[Len(path)])
    /\ "leaves" \in DOMAIN path[Len(path)].d
    /\ Len(DimNames(path)) = Len(DictSegments(path)) - 1
    /\ NoDuplicates(DimNames(path) \o <<path[Len(path)].d["leaves"]>>)

\* idx is a place in the nested list value, 0-based
RECURSIVE IsPlace(_, _)
IsPlace(value, idx) ==
    \/ idx = <<>>
    \/ /\ value.t = "list"
       /\ Head(idx) + 1 \in 1..Len(value.l)
       /\ IsPlace(value.l[Head(idx) + 1], Tail(idx))

RECURSIVE At(_, _)
At(value, idx) == IF idx = <<>> THEN value ELSE At(value.l[Head(idx) + 1], Tail(idx))

\* the nested list value has these sizes, one for each dimension
RECURSIVE HasShape(_, _)
HasShape(value, sizes) ==
    \/ sizes = <<>>
    \/ /\ value.t = "list"
       /\ Len(value.l) = Head(sizes)
       /\ \A i \in 1..Len(value.l) : HasShape(value.l[i], Tail(sizes))

RECURSIVE Product(_)
Product(sizes) == IF sizes = <<>> THEN 1 ELSE Head(sizes) * Product(Tail(sizes))

\* the places of value along k dimensions
RECURSIVE Places(_, _)
Places(value, k) ==
    IF k = 0 THEN {<<>>}
    ELSE UNION {{<<i - 1>> \o idx : idx \in Places(value.l[i], k - 1)} : i \in 1..Len(value.l)}

\* row-major order: the last dimension varies fastest
Before(idx1, idx2) ==
    \E j \in 1..Len(idx1) : idx1[j] < idx2[j] /\ \A i \in 1..(j - 1) : idx1[i] = idx2[i]

\* the place a record names
PlaceOf(record, names) == [j \in 1..Len(names) |-> record.d[names[j].v].v]

\* C14: flatten() on a value with k named list dimensions and a final
\* {"leaves": L} segment gives one record per leaf value in row-major order,
\* the last dimension varying fastest; a record maps each dimension name to
\* the 0-based index of its leaf along that dimension and L to the leaf
\* value, so there are as many records as the product of the dimension
\* sizes.
C14_FlattenRecords ==
    (last.op = "flatten" /\ Named(last.path)) =>
        /\ last.err = NoErr
        /\ \A n \in 1..Len(last.out) :
              /\ last.out[n].t = "dict"
              /\ DOMAIN last.out[n].d
                    = {DimNames(last.path)[j].v : j \in 1..Len(DimNames(last.path))}
                         \cup {LeafOf(last.self.dimensions).v}
              /\ IsPlace(last.self.value, PlaceOf(last.out[n], DimNames(last.path)))
              /\ last.out[n].d[LeafOf(last.self.dimensions).v]
                    = At(last.self.value, PlaceOf(last.out[n], DimNames(last.path)))
        /\ \A n \in 1..(Len(last.out) - 1) :
              Before(PlaceOf(last.out[n], DimNames(last.path)),
                     PlaceOf(last.out[n + 1], DimNames(last.path)))
        /\ Len(last.out) = Cardinality(Places(last.self.value, Len(DimNames(last.path))))
        /\ \A sizes \in Tuples(0..MaxSize, Len(DimNames(last.path))) :
              HasShape(last.self.value, sizes) => Len(last.out) = Product(sizes)

C14_Witness ==
    /\ last.op = "flatten"
    /\ last.data = DataSquare
    /\ last.path = <<Key("a"), Dim("first"), Dim("second"), Leaves("c")>>
    /\ Len(last.out) = 4
    /\ last.out[2] = Dict(Put(Put(Leaf("first", 0), "second", Atom(1)), "c", Atom(2)))
    /\ last.out[3] = Dict(Put(Put(Leaf("first", 1), "second", Atom(0)), "c", Atom(3)))

C14_WitnessCube ==
    /\ last.op = "flatten"
    /\ last.data = DataCube
    /\ last.path = <<Dim("first"), Dim("second"), Dim("third"), Leaves("c")>>
    /\ Len(last.out) = 12
    /\ last.out[6].d["c"] = Atom(6)

C14_WitnessRagged ==
    /\ last.op = "flatten"
    /\ last.data = DataRagged
    /\ last.path = <<Dim("first"), Dim("second"), Leaves("c")>>
    /\ Len(last.out) = 3

-----------------------------------------------------------------------------
(* get_in: malformed traversals *)

\* the segments the traversal comes to, each with the value it has there: a
\* dict segment other than {...: name} ends the traversal or fails it
RECURSIVE Arrive(_, _)
Arrive(value, path) ==
    IF path = <<>> THEN {}
    ELSE {[segment |-> Head(path), value |-> value]} \cup
         (IF IsDim(Head(path))
          THEN IF value.t = "list"
               THEN UNION {Arrive(value.l[i], Tail(path)) : i \in 1..Len(value.l)}
               ELSE {}
          ELSE IF IsDictSegment(Head(path)) THEN {}
          ELSE IF value.t = "dict" /\ Head(path).v \in DOMAIN value.d
               THEN Arrive(value.d[Head(path).v], Tail(path))
               ELSE {})

Arrivals == Arrive(last.data, last.path)

Neither(segment) ==
    IsDictSegment(segment) /\ "..." \notin DOMAIN segment.d /\ "leaves" \notin DOMAIN segment.d

GetInCalls == {"get_in", "gen.studio.get_in"}

\* C15 as stated: get_in raises TypeError, and gives no Dimensioned object
\* and no partial value, when a {...: name} segment is reached with a value
\* that is no list, and when the path holds a dict segment with neither the
\* ... key nor the 'leaves' key.
C15_RejectsMalformed ==
    /\ (last.op \in GetInCalls /\ \E x \in Arrivals : IsDim(x.segment) /\ x.value.t # "list")
          => last.err = "TypeError" /\ last.out = None
    /\ (last.op = "get_in" /\ \E i \in 1..Len(last.path) : Neither(last.path[i]))
          => last.err = "TypeError" /\ last.out = None

\* C15, amended: get_in raises TypeError, and gives no Dimensioned object and
\* no partial value, when a {...: name} segment is reached with a value that
\* is no list, and when a dict segment with neither the ... key nor the
\* 'leaves' key is reached; a segment after a 'leaves' segment, under an
\* empty list or after a key the data does not have is not reached.
C15_RejectsReached ==
    /\ (last.op \in GetInCalls /\ \E x \in Arrivals : IsDim(x.segment) /\ x.value.t # "list")
          => last.err = "TypeError" /\ last.out = None
    /\ (last.op = "get_in" /\ \E x \in Arrivals : Neither(x.segment))
          => last.err = "TypeError" /\ last.out = None

C15_Witness ==
    /\ last.op = "get_in"
    /\ last.data = DataRecords
    /\ last.path = <<Key("a"), Dim("first"), Key("b"), As("c")>>
    /\ last.err = "TypeError"
    /\ last.out = None

C15_WitnessNoList ==
    /\ last.op = "gen.studio.get_in"
    /\ last.data = DataNested
    /\ last.path = <<Key("a"), Dim("first")>>
    /\ last.err = "TypeError"

C15_WitnessNotReached ==
    /\ last.op = "get_in"
    /\ last.data = DataEmpty
    /\ last.path = <<Key("a"), Dim("first"), As("c")>>
    /\ last.err = NoErr
    /\ last.out.t = "dimensioned"

-----------------------------------------------------------------------------
(* initialState: genstudio/plot.py *)

MaxKeys == 3        \* most state variables initialState is given

StateKeys == <<"count", "name", "x", "y">>
Names == {StateKeys[i] : i \in 1..MaxKeys}

True == [t |-> "bool", v |-> TRUE]
False == [t |-> "bool", v |-> FALSE]
SetOf(S) == [t |-> "set", s |-> S]

\* genstudio.layout.Ref(value, state_key=..., sync=...): what it is made with
StateRef(value, state_key, sync) ==
    [t |-> "Ref", value |-> value, state_key |-> state_key, sync |-> sync]

\* genstudio.layout.JSCall(path, args): what it is made with
JSCall(path, args) == [t |-> "JSCall", path |-> path, args |-> args]

\* sync_set that takes a set that is not empty for True
sync_set_all(values, sync) ==
    IF sync = True \/ (sync.t = "set" /\ sync.s # {})
    THEN {values[i].k : i \in 1..Len(values)}
    ELSE {}

\* `set(values.keys()) if sync is True else (sync or set())`, for a sync
\* that is True, False, None or a set
sync_set(values, sync) ==
    IF sync = True THEN {values[i].k : i \in 1..Len(values)}
    ELSE IF sync.t = "set" /\ sync.s # {} THEN sync.s
    ELSE {}

\* `[Ref(v, state_key=k, sync=(k in sync_set)) for k, v in values.items()]`
Refs(values, synced) ==
    [i \in 1..Len(values) |-> StateRef(values[i].v, values[i].k, values[i].k \in synced)]

\* initialState(values, sync=None), values being the items of the dict in
\* the order they were put in
initialState(values, sync) ==
    Returned(JSCall("InitialState", Refs(values, sync_set(values, sync))))

\* dicts of state variables: the items, no key twice
Items(keys) == [i \in 1..Len(keys) |-> [k |-> keys[i], v |-> Atom(i)]]
Values == {Items(keys) : keys \in {t \in UNION {Tuples(Names, n) : n \in 0..MaxKeys} :
                                      \A i, j \in 1..Len(t) : t[i] = t[j] => i = j}}
Syncs == {True, False, None} \cup {SetOf(S) : S \in SUBSET Names}

InitInitialState ==
    \E values \in Values, sync \in Syncs : Given([op |-> "state", values |-> values, sync |-> sync])

InitialState ==
    /\ last.op = "state"
    /\ last' = [op |-> "initialState", values |-> last.values, sync |-> last.sync,
                err |-> initialState(last.values, last.sync).err,
                out |-> initialState(last.values, last.sync).out]
    /\ UNCHANGED <<heap, plotSpecs, widgets, callback_registry>>

SpecState == InitInitialState /\ [][InitialState]_vars

\* C16: initialState(values, sync) makes one state Ref for each key of
\* values, in the order of the keys, with the key's value; all are synced
\* when sync is True, a variable is synced exactly when its key is in sync
\* when sync is a set, and none is synced when sync is None or False.
C16_InitialStateSync ==
    last.op = "initialState" =>
        /\ last.err = NoErr
        /\ last.out.t = "JSCall"
        /\ last.out.path = "InitialState"
        /\ Len(last.out.args) = Len(last.values)
        /\ \A i \in 1..Len(last.values) :
              /\ last.out.args[i].t = "Ref"
              /\ last.out.args[i].state_key = last.values[i].k
              /\ last.out.args[i].value = last.values[i].v
              /\ last.out.args[i].sync
                    = CASE last.sync = True -> TRUE
                        [] last.sync.t = "set" -> last.values[i].k \in last.sync.s
                        [] OTHER -> FALSE

C16_Witness ==
    /\ last.op = "initialState"
    /\ last.sync = SetOf({"name"})
    /\ Len(last.values) = 3
    /\ last.values[1].k = "x"
    /\ last.values[2].k = "name"
    /\ last.out.args[1].sync = FALSE
    /\ last.out.args[2].sync = TRUE
    /\ last.out.args[1].state_key = "x"

C16_WitnessAll ==
    /\ last.op = "initialState"
    /\ last.sync = True
    /\ Len(last.values) = 2
    /\ \A i \in 1..2 : last.out.args[i].sync

-----------------------------------------------------------------------------
(* to_json: which conversion an object gets *)

\* an instance of datetime.date or datetime.datetime, by its isoformat()
Date(iso) == [t |-> "date", v |-> iso]

Maybe(v) == {Absent, v}

\* the objects by what they have: each attribute `default` tests, or not;
\* one with isoformat is an instance of a subclass of datetime.date
Objects ==
    {Obj(c, f, l, i, d, g) :
        c \in Maybe(Str("k")), f \in Maybe(Atom(11)), l \in Maybe(Rows(<<12>>)),
        i \in Maybe(Rows(<<13>>)), d \in Maybe(Str("2024-01-01")), g \in Maybe(Str("f"))}
    \cup {Date("2024-01-01")}

InitConvert ==
    \E data \in Objects, widget \in {0, 1} :
        Given([op |-> "object", data |-> data, widget |-> widget])

\* to_json_with_cache(obj, widget)
ConvertWithCache ==
    /\ last.op = "object"
    /\ Serialized("to_json_with_cache", last.data, last.widget,
                  to_json_with_cache(callback_registry, last.data, last.widget))

\* to_json(obj, widget=widget)
Convert ==
    /\ last.op = "object"
    /\ Serialized("to_json", last.data, last.widget,
                  to_json(Start(callback_registry), last.data, last.widget, FALSE))

Conversions == ConvertWithCache \/ Convert

SpecConvert == InitConvert /\ [][Conversions]_vars

Converted == last.op \in Sends /\ last.data.t \in {"obj", "date"}

\* what the object has, a date or datetime having isoformat()
Holds(attr) ==
    IF last.data.t = "date" THEN attr = "isoformat" ELSE Has(last.data, attr)

Iso == IF last.data.t = "date" THEN Str(last.data.v) ELSE last.data.isoformat

\* the rules in their order, the first that matches giving the document
FirstRule ==
    IF Holds("cache_id") /\ Holds("for_json") /\ CacheOn
    THEN /\ last.err = NoErr
         /\ Doc = Tagged("cached", "id", last.data.cache_id)
         /\ last.cache[last.data.cache_id.v] = Fragment(last.data.for_json)
    ELSE IF Holds("for_json") THEN last.err = NoErr /\ Doc = last.data.for_json
    ELSE IF Holds("tolist") THEN last.err = NoErr /\ Doc = last.data.tolist
    ELSE IF Holds("items") THEN last.err = NoErr /\ Doc = last.data.items
    ELSE IF Holds("isoformat")
         THEN last.err = NoErr /\ Doc = Tagged("datetime", "value", Iso)
    ELSE IF Holds("call")
         THEN /\ last.err = NoErr
              /\ IF last.widget # 0
                 THEN /\ IsCallbackRef(Doc)
                      /\ callback_registry[Doc.d["id"].v] = last.data.call.v
                 ELSE Doc = None
    ELSE last.err = "TypeError"

\* C17: to_json converts an object that is no JSON value by the first rule
\* that matches: (1) cache_id and a cache present: the cached reference;
\* (2) for_json: its result, for an object with cache_id too when there is
\* no cache; (3) tolist; (4) an iterable: the list of its items; (5) a date
\* or datetime: {"__type__": "datetime", "value": isoformat}; (6) a
\* callable: the callback reference, or null; (7) otherwise TypeError.  An
\* object with cache_id has for_json, which gives the value to cache.
C17_Precedence ==
    (Converted /\ (Holds("cache_id") /\ CacheOn => Holds("for_json"))) => FirstRule

\* C17 for the objects orjson hands to `default`: every object but the
\* instances of datetime.date and datetime.datetime themselves
C17_DefaultPrecedence ==
    (Converted /\ last.data.t = "obj" /\ (Holds("cache_id") /\ CacheOn => Holds("for_json")))
        => FirstRule

C17_WitnessDate ==
    /\ Converted
    /\ last.data = Date("2024-01-01")
    /\ last.err = NoErr
    /\ Doc = Str("2024-01-01")

C17_WitnessDefault ==
    /\ Converted
    /\ last.data = Obj(Absent, Absent, Absent, Rows(<<13>>), Str("2024-01-01"), Str("f"))
    /\ Doc = Rows(<<13>>)

====
